---- MODULE Spec2Model ----
(***************************************************************************)
(* A model of gocache.  src/gocache.go holds the package text twice; the    *)
(* model follows the text of lines 117-275, the one with every operation   *)
(* (Count, GetItem and Expire exist only there, and there New starts the   *)
(* sweep as a goroutine).  The state is                                    *)
(* a map from keys to Items guarded by a sync.RWMutex, caller goroutines   *)
(* running Set / Get / GetItem / Expire / Delete / Count, the background   *)
(* goroutine gc started by New when cleanupInterval > 0, and a wall clock. *)
(* Every goroutine has a program counter; one action is one step of one    *)
(* goroutine between two points where another goroutine can interleave.    *)
(***************************************************************************)
EXTENDS Integers, FiniteSets, TLC

\* ------------------------------------------------------------------ bounds
\* The clock runs from 0 to MaxTime.
MaxTime == 2
\* Set is called with a duration in -1 .. MaxDuration, or with the largest one.
MaxDuration == 1

Callers == {"c1", "c2"}
Keys == {"a", "b"}
\* the values a caller stores: each caller has its own, so that an entry tells who wrote it
ValuesOf(t) == IF t = "c1" THEN {"x"} ELSE {"y"}
\* Expiration is an int64 of nanoseconds; the model keeps the two's-complement
\* arithmetic and scales the width down to IntWidth bits.
IntWidth == 4
MaxInt == 2^(IntWidth - 1) - 1
\* an int64 sum as Go computes it: it wraps around
Wrap(x) == ((x + MaxInt + 1) % (2 * (MaxInt + 1))) - (MaxInt + 1)
\* the durations Set is called with; MaxInt is time.Duration(math.MaxInt64)
Durations == ((0 - 1) .. MaxDuration) \cup {MaxInt}
\* the defaultExpiration and cleanupInterval arguments New is called with
DefaultExpirations == {0, 1}
CleanupIntervals == {0 - 1, 0, 1}

Nil == "nil"
NoOne == "none"
GC == "gc"

\* ------------------------------------------------------------------ state
VARIABLES
    items,              \* c.items: a function from the keys present to Items
    mu,                 \* c.mu: [w: the goroutine holding Lock or NoOne, r: the set holding RLock]
    defaultExpiration,  \* c.defaultExpiration
    cleanupInterval,    \* c.cleanupInterval
    now,                \* time.Now(), in clock units
    pc,                 \* pc[t]: where caller goroutine t is
    arg,                \* arg[t]: the arguments of t's call in progress
    loc,                \* loc[t]: t's local variables (expiration; item, found)
    ret,                \* ret[t]: what t's last completed call returned (n: Count's result,
                        \* at: the instant Count read the map)
    gcpc,               \* where the goroutine gc is ("off" when it was never started)
    gcWake,             \* the instant gc's time.After fires
    gcKeys,             \* gc's local keys (the result of expiredKeys)
    crashed,            \* the runtime aborted the process (fatal error on a racing map access)
    hist                \* history: ins = keys ever inserted, del = keys whose latest mutation removed them

vars == <<items, mu, defaultExpiration, cleanupInterval, now, pc, arg, loc, ret,
          gcpc, gcWake, gcKeys, crashed, hist>>

\* The zero value Item{} that a failed map lookup yields.
ZeroItem == [Value |-> Nil, Created |-> 0, Expiration |-> 0]

NoArg == [key |-> Nil, val |-> Nil, dur |-> 0]
NoLoc == [exp |-> 0, item |-> ZeroItem, found |-> FALSE]
NoRet == [op |-> "none", key |-> Nil, val |-> Nil, ok |-> FALSE, item |-> ZeroItem, n |-> 0, at |-> 0]

\* New as it would be if it started the sweep for every cleanupInterval >= 0
InitSweepsAtZero ==
    /\ items = << >>
    /\ mu = [w |-> NoOne, r |-> {}]
    /\ defaultExpiration \in DefaultExpirations
    /\ cleanupInterval \in CleanupIntervals
    /\ now = 0
    /\ pc = [t \in Callers |-> "idle"]
    /\ arg = [t \in Callers |-> NoArg]
    /\ loc = [t \in Callers |-> NoLoc]
    /\ ret = [t \in Callers |-> NoRet]
    /\ gcpc = IF cleanupInterval >= 0 THEN "sleep" ELSE "off"
    /\ gcWake = cleanupInterval
    /\ gcKeys = {}
    /\ crashed = FALSE
    /\ hist = [ins |-> {}, del |-> {}]

\* New: an empty map, the two durations stored, gc started iff cleanupInterval > 0.
Init ==
    /\ items = << >>
    /\ mu = [w |-> NoOne, r |-> {}]
    /\ defaultExpiration \in DefaultExpirations
    /\ cleanupInterval \in CleanupIntervals
    /\ now = 0
    /\ pc = [t \in Callers |-> "idle"]
    /\ arg = [t \in Callers |-> NoArg]
    /\ loc = [t \in Callers |-> NoLoc]
    /\ ret = [t \in Callers |-> NoRet]
    /\ gcpc = IF cleanupInterval > 0 THEN "sleep" ELSE "off"
    /\ gcWake = cleanupInterval
    /\ gcKeys = {}
    /\ crashed = FALSE
    /\ hist = [ins |-> {}, del |-> {}]

\* ------------------------------------------------------------------ helpers
\* m[k] = it (insert or overwrite)
MapPut(m, k, it) == [x \in (DOMAIN m) \cup {k} |-> IF x = k THEN it ELSE m[x]]

\* delete(m, k) for every k in ks; deleting an absent key is a no-op
MapDelete(m, ks) == [x \in (DOMAIN m) \ ks |-> m[x]]

\* item, found := m[k]
MapGet(m, k) == IF k \in DOMAIN m THEN m[k] ELSE ZeroItem

\* the test Get, GetItem and Expire make on the item they looked up
Expired(it, t) == it.Expiration > 0 /\ t > it.Expiration

\* sync.RWMutex: Lock succeeds when nobody holds the mutex in either mode,
\* RLock when nobody holds it exclusively.
CanLock == mu.w = NoOne /\ mu.r = {}
CanRLock == mu.w = NoOne

Goto(t, l) == pc' = [pc EXCEPT ![t] = l]

RetOf(o, k, v, b, it) ==
    [op |-> o, key |-> k, val |-> v, ok |-> b, item |-> it, n |-> 0, at |-> 0]

\* a caller enters an operation: its previous result is forgotten
Enter(t, l, a) ==
    /\ ~crashed
    /\ pc[t] = "idle"
    /\ Goto(t, l)
    /\ arg' = [arg EXCEPT ![t] = a]
    /\ ret' = [ret EXCEPT ![t] = NoRet]

\* a caller returns r: its arguments and locals are gone
Return(t, r) ==
    /\ Goto(t, "idle")
    /\ ret' = [ret EXCEPT ![t] = r]
    /\ arg' = [arg EXCEPT ![t] = NoArg]
    /\ loc' = [loc EXCEPT ![t] = NoLoc]

\* c.mu.RLock()
AcquireRead(t, from, to) ==
    /\ ~crashed
    /\ pc[t] = from
    /\ CanRLock
    /\ mu' = [mu EXCEPT !.r = @ \cup {t}]
    /\ Goto(t, to)
    /\ UNCHANGED <<items, defaultExpiration, cleanupInterval, now, arg, loc, ret,
                   gcpc, gcWake, gcKeys, crashed, hist>>

\* item, found := c.items[key]; c.mu.RUnlock()
LookupRelease(t, from, to) ==
    /\ ~crashed
    /\ pc[t] = from
    /\ loc' = [loc EXCEPT ![t] = [exp |-> 0, item |-> MapGet(items, arg[t].key),
                                  found |-> arg[t].key \in DOMAIN items]]
    /\ mu' = [mu EXCEPT !.r = @ \ {t}]
    /\ Goto(t, to)
    /\ UNCHANGED <<items, defaultExpiration, cleanupInterval, now, arg, ret,
                   gcpc, gcWake, gcKeys, crashed, hist>>

\* c.mu.Lock()
AcquireWrite(t, from, to) ==
    /\ ~crashed
    /\ pc[t] = from
    /\ CanLock
    /\ mu' = [mu EXCEPT !.w = t]
    /\ Goto(t, to)
    /\ UNCHANGED <<items, defaultExpiration, cleanupInterval, now, arg, loc, ret,
                   gcpc, gcWake, gcKeys, crashed, hist>>

\* ------------------------------------------------------------------ Set
\* Set, up to c.mu.Lock(): the effective duration and the expiration instant
Set(t, k, v, d) ==
    /\ Enter(t, "set_lock", [key |-> k, val |-> v, dur |-> d])
    /\ LET duration == IF d = 0 THEN defaultExpiration ELSE d
           expiration == IF duration > 0 THEN Wrap(now + duration) ELSE 0
       IN  loc' = [loc EXCEPT ![t] = [exp |-> expiration, item |-> ZeroItem, found |-> FALSE]]
    /\ UNCHANGED <<items, mu, defaultExpiration, cleanupInterval, now,
                   gcpc, gcWake, gcKeys, crashed, hist>>

SetLock(t) == AcquireWrite(t, "set_lock", "set_write")

\* c.items[key] = Item{...}, and the return: the mutex stays locked
SetWrite(t) ==
    /\ ~crashed
    /\ pc[t] = "set_write"
    /\ items' = MapPut(items, arg[t].key,
                       [Value |-> arg[t].val, Created |-> now, Expiration |-> loc[t].exp])
    /\ hist' = [ins |-> hist.ins \cup {arg[t].key}, del |-> hist.del \ {arg[t].key}]
    /\ Return(t, RetOf("Set", arg[t].key, Nil, TRUE, ZeroItem))
    /\ UNCHANGED <<mu, defaultExpiration, cleanupInterval, now,
                   gcpc, gcWake, gcKeys, crashed>>

\* ------------------------------------------------------------------ Get
Get(t, k) ==
    /\ Enter(t, "get_rlock", [key |-> k, val |-> Nil, dur |-> 0])
    /\ UNCHANGED <<items, mu, defaultExpiration, cleanupInterval, now, loc,
                   gcpc, gcWake, gcKeys, crashed, hist>>

GetRLock(t) == AcquireRead(t, "get_rlock", "get_read")

GetRead(t) == LookupRelease(t, "get_read", "get_check")

\* what Get returns for the looked-up (item, found) at time tm: (value, found)
GetResult(it, found, tm) ==
    IF ~found THEN [val |-> Nil, ok |-> FALSE]
    ELSE IF Expired(it, tm) THEN [val |-> Nil, ok |-> FALSE]
    ELSE [val |-> it.Value, ok |-> TRUE]

GetReturn(t) ==
    /\ ~crashed
    /\ pc[t] = "get_check"
    /\ LET r == GetResult(loc[t].item, loc[t].found, now)
       IN  Return(t, RetOf("Get", arg[t].key, r.val, r.ok, ZeroItem))
    /\ UNCHANGED <<items, mu, defaultExpiration, cleanupInterval, now,
                   gcpc, gcWake, gcKeys, crashed, hist>>

\* ------------------------------------------------------------------ GetItem
GetItem(t, k) ==
    /\ Enter(t, "getitem_rlock", [key |-> k, val |-> Nil, dur |-> 0])
    /\ UNCHANGED <<items, mu, defaultExpiration, cleanupInterval, now, loc,
                   gcpc, gcWake, gcKeys, crashed, hist>>

GetItemRLock(t) == AcquireRead(t, "getitem_rlock", "getitem_read")

GetItemRead(t) == LookupRelease(t, "getitem_read", "getitem_check")

\* what GetItem returns: (a fresh Item with the three fields copied, nil) or (nil, error)
GetItemResult(it, found, tm) ==
    IF ~found THEN [item |-> ZeroItem, ok |-> FALSE]
    ELSE IF Expired(it, tm) THEN [item |-> ZeroItem, ok |-> FALSE]
    ELSE [item |-> [Value |-> it.Value, Created |-> it.Created, Expiration |-> it.Expiration],
          ok |-> TRUE]

GetItemReturn(t) ==
    /\ ~crashed
    /\ pc[t] = "getitem_check"
    /\ LET r == GetItemResult(loc[t].item, loc[t].found, now)
       IN  Return(t, RetOf("GetItem", arg[t].key, Nil, r.ok, r.item))
    /\ UNCHANGED <<items, mu, defaultExpiration, cleanupInterval, now,
                   gcpc, gcWake, gcKeys, crashed, hist>>

\* ------------------------------------------------------------------ Expire
Expire(t, k) ==
    /\ Enter(t, "expire_rlock", [key |-> k, val |-> Nil, dur |-> 0])
    /\ UNCHANGED <<items, mu, defaultExpiration, cleanupInterval, now, loc,
                   gcpc, gcWake, gcKeys, crashed, hist>>

ExpireRLock(t) == AcquireRead(t, "expire_rlock", "expire_read")

ExpireRead(t) == LookupRelease(t, "expire_read", "expire_check")

\* the boolean Expire returns
ExpireResult(it, found, tm) ==
    IF ~found THEN TRUE
    ELSE IF Expired(it, tm) THEN TRUE
    ELSE FALSE

ExpireReturn(t) ==
    /\ ~crashed
    /\ pc[t] = "expire_check"
    /\ Return(t, RetOf("Expire", arg[t].key, Nil,
                       ExpireResult(loc[t].item, loc[t].found, now), ZeroItem))
    /\ UNCHANGED <<items, mu, defaultExpiration, cleanupInterval, now,
                   gcpc, gcWake, gcKeys, crashed, hist>>

\* ------------------------------------------------------------------ Delete
Delete(t, k) ==
    /\ Enter(t, "delete_lock", [key |-> k, val |-> Nil, dur |-> 0])
    /\ UNCHANGED <<items, mu, defaultExpiration, cleanupInterval, now, loc,
                   gcpc, gcWake, gcKeys, crashed, hist>>

DeleteLock(t) == AcquireWrite(t, "delete_lock", "delete_body")

\* the body of Delete under the lock: the not-found return keeps the mutex
\* locked, the other path deletes the key and unlocks
DeleteBody(t) ==
    /\ ~crashed
    /\ pc[t] = "delete_body"
    /\ IF arg[t].key \notin DOMAIN items
       THEN /\ Return(t, RetOf("Delete", arg[t].key, Nil, FALSE, ZeroItem))
            /\ UNCHANGED <<items, mu, hist>>
       ELSE /\ items' = MapDelete(items, {arg[t].key})
            /\ hist' = [hist EXCEPT !.del = @ \cup {arg[t].key}]
            /\ mu' = [mu EXCEPT !.w = NoOne]
            /\ Return(t, RetOf("Delete", arg[t].key, Nil, TRUE, ZeroItem))
    /\ UNCHANGED <<defaultExpiration, cleanupInterval, now,
                   gcpc, gcWake, gcKeys, crashed>>

\* ------------------------------------------------------------------ Count
\* Count starts ranging over c.items; it takes no lock
Count(t) ==
    /\ Enter(t, "count_iter", NoArg)
    /\ UNCHANGED <<items, mu, defaultExpiration, cleanupInterval, now, loc,
                   gcpc, gcWake, gcKeys, crashed, hist>>

\* the keys expiredKeys collects from the map m at time tm
expiredKeys(m, tm) == {k \in DOMAIN m : tm > m[k].Expiration /\ m[k].Expiration > 0}

\* Count as it would be if it dropped the expired entries it meets
CountReturnSweeping(t) ==
    /\ ~crashed
    /\ pc[t] = "count_iter"
    /\ items' = MapDelete(items, expiredKeys(items, now))
    /\ Return(t, [RetOf("Count", Nil, Nil, TRUE, ZeroItem) EXCEPT
                    !.n = Cardinality(DOMAIN items'), !.at = now])
    /\ UNCHANGED <<mu, defaultExpiration, cleanupInterval, now,
                   gcpc, gcWake, gcKeys, crashed, hist>>

\* Count as it would be if it counted the live entries only
CountReturnLive(t) ==
    /\ ~crashed
    /\ pc[t] = "count_iter"
    /\ Return(t, [RetOf("Count", Nil, Nil, TRUE, ZeroItem) EXCEPT
                    !.n = Cardinality(DOMAIN items \ expiredKeys(items, now)), !.at = now])
    /\ UNCHANGED <<items, mu, defaultExpiration, cleanupInterval, now,
                   gcpc, gcWake, gcKeys, crashed, hist>>

\* the loop has counted the entries of the map; Count returns the count
CountReturn(t) ==
    /\ ~crashed
    /\ pc[t] = "count_iter"
    /\ Return(t, [RetOf("Count", Nil, Nil, TRUE, ZeroItem) EXCEPT
                    !.n = Cardinality(DOMAIN items), !.at = now])
    /\ UNCHANGED <<items, mu, defaultExpiration, cleanupInterval, now,
                   gcpc, gcWake, gcKeys, crashed, hist>>

\* ------------------------------------------------------------------ the sweep
\* the map after clearItems(keys)
clearItems(m, keys) == MapDelete(m, keys)

\* One step of the goroutine gc.  sleep: <-time.After(c.cleanupInterval) and
\* the c.items == nil test (the map is never nil); rlock, scan: expiredKeys;
\* lock, clear: clearItems, which returns with the mutex locked.
gc ==
    /\ ~crashed
    /\ CASE gcpc = "sleep" ->
              /\ now >= gcWake
              /\ gcpc' = "rlock"
              /\ UNCHANGED <<items, mu, gcWake, gcKeys, hist>>
         [] gcpc = "rlock" ->
              /\ CanRLock
              /\ mu' = [mu EXCEPT !.r = @ \cup {GC}]
              /\ gcpc' = "scan"
              /\ UNCHANGED <<items, gcWake, gcKeys, hist>>
         [] gcpc = "scan" ->
              /\ mu' = [mu EXCEPT !.r = @ \ {GC}]
              /\ gcKeys' = expiredKeys(items, now)
              /\ IF gcKeys' # {}
                 THEN gcpc' = "lock" /\ UNCHANGED gcWake
                 ELSE gcpc' = "sleep" /\ gcWake' = now + cleanupInterval
              /\ UNCHANGED <<items, hist>>
         [] gcpc = "lock" ->
              /\ CanLock
              /\ mu' = [mu EXCEPT !.w = GC]
              /\ gcpc' = "clear"
              /\ UNCHANGED <<items, gcWake, gcKeys, hist>>
         [] gcpc = "clear" ->
              /\ items' = clearItems(items, gcKeys)
              /\ hist' = [hist EXCEPT !.del = @ \cup (gcKeys \cap DOMAIN items)]
              /\ gcpc' = "sleep"
              /\ gcWake' = now + cleanupInterval
              /\ UNCHANGED <<mu, gcKeys>>
         [] OTHER -> FALSE
    /\ UNCHANGED <<defaultExpiration, cleanupInterval, now, pc, arg, loc, ret, crashed>>

\* ------------------------------------------------------------------ the runtime
\* a goroutine is about to write the map (it holds the lock)
Writing ==
    \/ \E u \in Callers : pc[u] = "set_write"
    \/ \E u \in Callers : pc[u] = "delete_body" /\ arg[u].key \in DOMAIN items
    \/ gcpc = "clear"

\* Count ranges over the map without the lock: when a write overlaps the
\* iteration the Go runtime may abort the process ("concurrent map iteration
\* and map write"); when it does not, Count returns the count before or after
\* the write (CountReturn, taken before or after the writer's step).
Fatal ==
    /\ ~crashed
    /\ \E t \in Callers : pc[t] = "count_iter"
    /\ Writing
    /\ crashed' = TRUE
    /\ UNCHANGED <<items, mu, defaultExpiration, cleanupInterval, now, pc, arg, loc, ret,
                   gcpc, gcWake, gcKeys, hist>>

\* the wall clock advances
Tick ==
    /\ ~crashed
    /\ now < MaxTime
    /\ now' = now + 1
    /\ UNCHANGED <<items, mu, defaultExpiration, cleanupInterval, pc, arg, loc, ret,
                   gcpc, gcWake, gcKeys, crashed, hist>>

\* ------------------------------------------------------------------ specification
\* a caller starts an operation
Call(t) ==
    \/ \E k \in Keys, v \in ValuesOf(t), d \in Durations : Set(t, k, v, d)
    \/ \E k \in Keys : Get(t, k)
    \/ \E k \in Keys : GetItem(t, k)
    \/ \E k \in Keys : Expire(t, k)
    \/ \E k \in Keys : Delete(t, k)
    \/ Count(t)

\* a caller's operation in progress takes its next step
Proceed(t) ==
    \/ SetLock(t) \/ SetWrite(t)
    \/ GetRLock(t) \/ GetRead(t) \/ GetReturn(t)
    \/ GetItemRLock(t) \/ GetItemRead(t) \/ GetItemReturn(t)
    \/ ExpireRLock(t) \/ ExpireRead(t) \/ ExpireReturn(t)
    \/ DeleteLock(t) \/ DeleteBody(t)
    \/ CountReturn(t)

Next ==
    \/ \E t \in Callers : Call(t)
    \/ \E t \in Callers : Proceed(t)
    \/ gc
    \/ Fatal
    \/ Tick

Spec == Init /\ [][Next]_vars

\* Every started operation and the sweep keep being scheduled, the mutex
\* does not starve a goroutine that can acquire it again and again, and the
\* clock advances.  Callers are not obliged to start operations.
FairSpec ==
    /\ Spec
    /\ \A t \in Callers : SF_vars(Proceed(t))
    /\ SF_vars(gc)
    /\ WF_vars(Tick)

\* ------------------------------------------------------------------ vocabulary of the claims
AllValues == UNION {ValuesOf(t) : t \in Callers}

\* key k holds an entry with value v
Holds(k, v) == k \in DOMAIN items /\ items[k].Value = v
\* key k holds an entry that is expired now
ExpiredNow(k) == k \in DOMAIN items /\ Expired(items[k], now)
\* caller t has called an operation on key k and stands at label l
Pending(t, l, k) == pc[t] = l /\ arg[t].key = k
\* caller t's call of operation o on key k has returned
Returned(t, o, k) == pc[t] = "idle" /\ ret[t].op = o /\ ret[t].key = k

InSet(t) == pc[t] \in {"set_lock", "set_write"}
InDelete(t) == pc[t] \in {"delete_lock", "delete_body"}
SweepDeleting == gcpc \in {"lock", "clear"}
ReadPcs == {"get_rlock", "get_read", "get_check",
            "getitem_rlock", "getitem_read", "getitem_check",
            "expire_rlock", "expire_read", "expire_check", "count_iter"}

\* ------------------------------------------------------------------ the leaked lock
\* The counterexamples of C1, C3, C4, C5, C7, C8 and C10 end with a goroutine
\* waiting for the mutex.  That wait does not end, whatever the clock does:
\* once the mutex is held exclusively by a goroutine that is not inside the
\* operation that took it, no step ever releases it.
HolderGone ==
    \/ mu.w \in Callers /\ pc[mu.w] \notin {"set_write", "delete_body"}
    \/ mu.w = GC /\ gcpc # "clear"

LeakedLockIsPermanent == [][HolderGone => (mu'.w = mu.w /\ HolderGone')]_vars

\* ------------------------------------------------------------------ C1
\* C1: once a Set has stored (k, v), a Get(k) that is called while the entry
\* is not expired returns (v, true), unless the entry is replaced or removed
\* or its TTL elapses first.
C1_GetAfterSetReturnsValue ==
    \A t \in Callers, k \in Keys, v \in AllValues :
        (Pending(t, "get_rlock", k) /\ Holds(k, v) /\ ~ExpiredNow(k))
        ~> (\/ Returned(t, "Get", k) /\ ret[t].ok /\ ret[t].val = v
            \/ ~Holds(k, v)
            \/ ExpiredNow(k))

\* ------------------------------------------------------------------ C2
\* C2: whenever no Set, no Delete and no delete phase of the sweep is in
\* progress, nobody holds the mutex exclusively.
C2_ExclusiveLockReleased ==
    ((\A t \in Callers : ~InSet(t) /\ ~InDelete(t)) /\ ~SweepDeleting) => mu.w = NoOne

\* ------------------------------------------------------------------ C3
\* C3: every operation a caller has started eventually returns.
C3_EveryCallReturns ==
    \A t \in Callers : (pc[t] # "idle") ~> (pc[t] = "idle")

\* ------------------------------------------------------------------ C4
\* C4: a Delete(k) called while k is in the mapping returns no error with k
\* removed, and a Delete(k) called while k is not in the mapping returns the
\* NotFound error with k still absent (unless another caller removes or
\* inserts k first).
C4_DeleteRemovesOrReportsNotFound ==
    \A t \in Callers, k \in Keys :
        /\ (Pending(t, "delete_lock", k) /\ k \in DOMAIN items)
           ~> (Returned(t, "Delete", k) /\ k \notin DOMAIN items /\ (ret[t].ok \/ k \in hist.del))
        /\ (Pending(t, "delete_lock", k) /\ k \notin DOMAIN items)
           ~> ((Returned(t, "Delete", k) /\ ~ret[t].ok /\ k \notin DOMAIN items)
               \/ k \in DOMAIN items)

\* ------------------------------------------------------------------ C5
\* C5: a Get(k) on an entry (k, v) returns (v, true) when the clock it reads
\* is not past the entry's expiration instant or the instant is 0, and
\* (nil, false) when the clock is past it (unless the entry is replaced or
\* removed first).
C5_GetHonoursExpiration ==
    \A t \in Callers, k \in Keys, v \in AllValues :
        (Pending(t, "get_rlock", k) /\ Holds(k, v))
        ~> (\/ /\ Returned(t, "Get", k)
               /\ Holds(k, v)
               /\ ret[t].ok = ~ExpiredNow(k)
               /\ ret[t].val = (IF ExpiredNow(k) THEN Nil ELSE v)
            \/ ~Holds(k, v))

\* ------------------------------------------------------------------ C6
\* C6: no step of Get, GetItem, Expire or Count changes the mapping.
C6_ReadsLeaveMappingUnchanged ==
    [][\A t \in Callers :
          ((pc[t] \in ReadPcs \/ pc'[t] \in ReadPcs) /\ pc'[t] # pc[t]) => items' = items]_vars

\* a Count and a lookup have returned, the Count at a time when an entry of
\* the mapping was expired, and the entry is still there, nothing was removed
C6_Witness ==
    \E t \in Callers, u \in Callers, k \in Keys :
        /\ ret[t].op = "Count"
        /\ k \in DOMAIN items /\ Expired(items[k], ret[t].at)
        /\ ret[u].op \in {"Get", "GetItem", "Expire"}
        /\ hist.del = {}

\* ------------------------------------------------------------------ C7
\* C7: an Expire(k) called while k is absent returns true; called while k
\* holds an entry it returns true when the clock it reads is past a positive
\* expiration instant and false otherwise; the entry stays in the mapping.
C7_ExpireReportsExpiry ==
    \A t \in Callers, k \in Keys :
        /\ (Pending(t, "expire_rlock", k) /\ k \notin DOMAIN items)
           ~> ((Returned(t, "Expire", k) /\ ret[t].ok) \/ k \in DOMAIN items)
        /\ (Pending(t, "expire_rlock", k) /\ k \in DOMAIN items)
           ~> ((Returned(t, "Expire", k) /\ k \in DOMAIN items /\ ret[t].ok = ExpiredNow(k))
               \/ k \notin DOMAIN items)

\* ------------------------------------------------------------------ C8
\* C8: a GetItem(k) called while k holds an entry returns the NotFound error
\* exactly when Get reports not-found at that time (the entry is expired), and
\* otherwise an Item equal to the stored entry in Value, Created and Expiration.
C8_GetItemAgreesWithGet ==
    \A t \in Callers, k \in Keys, v \in AllValues :
        (Pending(t, "getitem_rlock", k) /\ Holds(k, v))
        ~> (\/ /\ Returned(t, "GetItem", k)
               /\ Holds(k, v)
               /\ ret[t].ok = GetResult(items[k], TRUE, now).ok
               /\ ret[t].ok => ret[t].item = items[k]
            \/ ~Holds(k, v))

\* ------------------------------------------------------------------ C9
\* C9: the number Count returns is the number of keys inserted and not removed
\* since (by Delete or by the sweep), whether or not their entries are expired.
C9_CountIsPhysicalSize ==
    [][\A t \in Callers :
          (pc[t] = "count_iter" /\ pc'[t] = "idle")
          => ret'[t].n = Cardinality(hist'.ins \ hist'.del)]_vars

\* a Count has returned 1 at a time when the only entry of the mapping was expired
C9_Witness ==
    \E t \in Callers, k \in Keys :
        /\ ret[t].op = "Count" /\ ret[t].n = 1
        /\ DOMAIN items = {k} /\ Expired(items[k], ret[t].at)

\* ------------------------------------------------------------------ C10
\* C10: with the sweep running, an expired entry is eventually removed from
\* the mapping (or replaced) without any Delete, provided the sweep's timer
\* can still fire within the clock's range.
C10_SweepReclaimsExpired ==
    \A k \in Keys, v \in AllValues :
        (cleanupInterval > 0 /\ Holds(k, v) /\ ExpiredNow(k)
            /\ gcpc = "sleep" /\ gcWake <= MaxTime)
        ~> ~(Holds(k, v) /\ ExpiredNow(k))

\* ------------------------------------------------------------------ C11
\* C11: in a cache built with cleanupInterval <= 0 the sweep never runs and
\* never holds the mutex, a key leaves the mapping only in the step of a
\* Delete of that key, and Count counts every key of the mapping, the expired
\* ones included.
C11_NoSweepOnlyDeleteRemoves ==
    [][cleanupInterval <= 0 =>
          /\ gcpc = "off" /\ gcpc' = "off"
          /\ mu'.w # GC /\ GC \notin mu'.r
          /\ \A k \in DOMAIN items :
                k \notin DOMAIN items' =>
                    \E t \in Callers : pc[t] = "delete_body" /\ arg[t].key = k /\ pc'[t] = "idle"
          /\ \A t \in Callers :
                (pc[t] = "count_iter" /\ pc'[t] = "idle")
                => ret'[t].n = Cardinality(DOMAIN items')]_vars

\* no sweep was started, an entry has expired, and a Count that ran after the
\* expiry has counted it
C11_Witness ==
    /\ cleanupInterval <= 0
    /\ gcpc = "off"
    /\ \E t \in Callers, k \in Keys :
          /\ k \in DOMAIN items /\ Expired(items[k], ret[t].at)
          /\ ret[t].op = "Count" /\ ret[t].n >= 1

\* ------------------------------------------------------------------ C12
\* a caller is reading or ranging over the map
ReadingMap(t) == pc[t] \in {"get_read", "getitem_read", "expire_read", "count_iter"}
\* a caller is inside a mutation of the map
MutatingMap(t) == pc[t] \in {"set_write", "delete_body"}

\* C12: whoever reads the map holds the mutex shared, whoever mutates it
\* holds it exclusively, nobody reads while another goroutine is inside a
\* mutation, and at most one goroutine is inside a mutation.
C12_LockDiscipline ==
    /\ \A t \in Callers : ReadingMap(t) => t \in mu.r
    /\ gcpc = "scan" => GC \in mu.r
    /\ \A t \in Callers : MutatingMap(t) => mu.w = t
    /\ gcpc = "clear" => mu.w = GC
    /\ ~((\E t \in Callers : ReadingMap(t)) /\ Writing)
    /\ Cardinality({t \in Callers : MutatingMap(t)}) + (IF gcpc = "clear" THEN 1 ELSE 0) <= 1

\* ------------------------------------------------------------------ C13
\* C13: last write wins per key: a Set called on a key that already holds
\* another caller's entry, live or expired, comes to be the entry stored
\* under that key (the value of caller t is the one in ValuesOf(t), so the
\* entry is the one this Set wrote) unless the key was removed meanwhile.
C13_LastWriteWins ==
    \A t \in Callers, k \in Keys :
        (Pending(t, "set_lock", k) /\ k \in DOMAIN items /\ items[k].Value \notin ValuesOf(t))
        ~> (\/ k \in DOMAIN items /\ items[k].Value \in ValuesOf(t)
            \/ k \notin DOMAIN items)

\* ------------------------------------------------------------------ C14
\* C14: Delete works on physical presence: a Delete called on a key whose
\* entry is expired but still in the mapping returns no error with the key
\* removed, unless someone else removed or rewrote the entry first.
C14_DeleteOfExpiredSucceeds ==
    \A t \in Callers, k \in Keys :
        (Pending(t, "delete_lock", k) /\ ExpiredNow(k))
        ~> (\/ Returned(t, "Delete", k) /\ ret[t].ok /\ k \notin DOMAIN items
            \/ ~ExpiredNow(k))

\* ------------------------------------------------------------------ C15
\* The first text of the package (lines 1-115) declares New, Set, Get,
\* Delete, startGC, expiredKeys and clearItems only: it has no GetItem, no
\* Expire and no Count.  Its Set, Get, Delete, expiredKeys and clearItems
\* are, token for token, those of the second text.  New calls startGC, and
\* startGC runs the sweep loop itself instead of starting a goroutine for
\* it; the loop is the loop of gc.
startGC == gc

\* New has returned the cache to its caller: in the first text only when it
\* did not call startGC, since the loop leaves only when c.items is nil.
NewReturned == gcpc = "off"

\* a caller starts an operation of the first text
CallInline(t) ==
    \/ \E k \in Keys, v \in ValuesOf(t), d \in Durations : Set(t, k, v, d)
    \/ \E k \in Keys : Get(t, k)
    \/ \E k \in Keys : Delete(t, k)

\* a caller's operation in progress takes its next step
ProceedInline(t) ==
    \/ SetLock(t) \/ SetWrite(t)
    \/ GetRLock(t) \/ GetRead(t) \/ GetReturn(t)
    \/ DeleteLock(t) \/ DeleteBody(t)

\* The first text: callers get the cache, and so can call it, once New has
\* returned; until then the only goroutine is the one inside New.  Every
\* access to the map is under the mutex, so the runtime never aborts.
NextInline ==
    \/ \E t \in Callers : NewReturned /\ CallInline(t)
    \/ \E t \in Callers : ProceedInline(t)
    \/ startGC
    \/ Tick

SpecInline == Init /\ [][NextInline]_vars

FairSpecInline ==
    /\ SpecInline
    /\ \A t \in Callers : SF_vars(ProceedInline(t))
    /\ SF_vars(startGC)
    /\ WF_vars(Tick)

\* a New that entered startGC stays in it: the loop has no way out
NewStaysInLoop == [][~NewReturned => ~NewReturned']_vars

\* C15: New returns for every pair of arguments.
C15_NewAlwaysReturns == <>NewReturned

\* ------------------------------------------------------------------ C16
\* the effective duration of a Set called with duration d
Effective(d) == IF d # 0 THEN d ELSE defaultExpiration

\* C16: a Set called with duration d computes, from the effective duration
\* e, the expiration now + e when e > 0 and 0 when e <= 0, and that is the
\* Expiration of the entry it stores.
C16_SetStoresNowPlusEffective ==
    [][\A t \in Callers :
          /\ (pc[t] = "idle" /\ pc'[t] = "set_lock")
             => loc'[t].exp = IF Effective(arg'[t].dur) > 0
                              THEN now + Effective(arg'[t].dur) ELSE 0
          /\ (pc[t] = "set_write" /\ pc'[t] = "idle")
             => /\ arg[t].key \in DOMAIN items'
                /\ items'[arg[t].key].Expiration = loc[t].exp]_vars

\* ------------------------------------------------------------------ C17
\* C17: every entry in the mapping has Expiration >= 0.
C17_ExpirationNeverNegative == \A k \in DOMAIN items : items[k].Expiration >= 0

\* ------------------------------------------------------------------ the sweep never collects
\* In this code no scan ever collects a key: an entry is in the mapping only
\* once a Set has returned, and from then on the mutex is held exclusively
\* (see LeakedLockIsPermanent), so every scan that succeeds sees the empty
\* map, and the delete phase is never entered.
SweepNeverCollects == gcKeys = {} /\ gcpc \notin {"lock", "clear"}

\* a pass of the sweep is due within the clock's range
SweepDue == cleanupInterval > 0 /\ gcpc = "sleep" /\ gcWake <= MaxTime

SweepStepsAreExact ==
    [][/\ (gcpc = "scan" /\ gcpc' # "scan")
          => /\ gcKeys' = {k \in DOMAIN items :
                              items[k].Expiration > 0 /\ items[k].Expiration < now}
             /\ items' = items
             /\ gcKeys' = {} => (gcpc' = "sleep" /\ mu'.w # GC)
       /\ (mu.w # GC /\ mu'.w = GC) => gcKeys # {}
       /\ (gcpc = "clear" /\ gcpc' # "clear")
          => /\ DOMAIN items' = (DOMAIN items) \ gcKeys
             /\ \A k \in DOMAIN items' : items'[k] = items[k]
       /\ \A k \in DOMAIN items :
             (items[k].Expiration = 0 /\ k \notin DOMAIN items')
             => \E t \in Callers : pc[t] = "delete_body" /\ pc'[t] = "idle"]_vars

VisibleItem(it, tm) == it.Expiration <= 0 \/ tm <= it.Expiration
\* key k is in the mapping with an entry that has not expired
Visible(k) == k \in DOMAIN items /\ VisibleItem(items[k], now)

\* a key that is absent or expired becomes visible again only in the step
\* in which a Set writes that key: no read, Count, Delete, sweep step or
\* tick of the clock makes it visible
VisibilityRisesOnlyBySet ==
    [][\A k \in Keys :
          (~Visible(k) /\ Visible(k)')
          => \E t \in Callers :
                pc[t] = "set_write" /\ arg[t].key = k /\ pc'[t] = "idle"]_vars

\* caller u's Get(k) has returned not-found
GetMissed(u, k) == Returned(u, "Get", k) /\ ~ret[u].ok
\* caller t has called Get, GetItem or Expire on k and has not yet looked k up
ReadCalled(t, k) ==
    arg[t].key = k /\ pc[t] \in {"get_rlock", "getitem_rlock", "expire_rlock"}
\* caller t's read of k has reported k gone: not-found from Get or GetItem, true from Expire
ReportedGone(t, k) ==
    /\ pc[t] = "idle" /\ ret[t].key = k
    /\ \/ ret[t].op \in {"Get", "GetItem"} /\ ~ret[t].ok
       \/ ret[t].op = "Expire" /\ ret[t].ok

====
